---- MODULE Spec2Model ----
(***************************************************************************)
(* Model of views/video_downloader.py: the folder provisioner, the format  *)
(* resolver, fetch_video_info, download_video and the Streamlit script     *)
(* main(), which Streamlit runs once per UI interaction and per session.   *)
(*                                                                         *)
(* Three specifications share the same state and the same steps of         *)
(* download_video:                                                         *)
(*   Spec      one browser session running main() over and over;           *)
(*   CallSpec  one caller invoking get_format_string, fetch_video_info and *)
(*             download_video directly, with arbitrary arguments;          *)
(*   RaceSpec  two sessions, each inside one download_video invocation.    *)
(***************************************************************************)
EXTENDS Naturals, Sequences, FiniteSets, TLC

(***************************************************************************)
(* Bounds of the model.                                                    *)
(***************************************************************************)
\* longest URL text typed into st.text_input / passed by a caller
MaxUrlLen == 1
\* longest 'formats' list the collaborator returns
MaxFormats == 2

(***************************************************************************)
(* Python values: None, int and str, with Python's equality (an int never  *)
(* equals a str) and truthiness.                                           *)
(***************************************************************************)
PyNone == [t |-> "None", n |-> 0, s |-> ""]
PyInt(i) == [t |-> "int", n |-> i, s |-> ""]
PyStr(x) == [t |-> "str", n |-> 0, s |-> x]

\* bool(v): None, 0 and "" are falsy
Truthy(v) ==
    CASE v.t = "None" -> FALSE
      [] v.t = "int"  -> v.n # 0
      [] v.t = "str"  -> v.s # ""

\* a or b
PyOr(a, b) == IF Truthy(a) THEN a ELSE b

(***************************************************************************)
(* Text. A URL is a sequence of characters so that str.strip() is computed *)
(* and not assumed.                                                        *)
(***************************************************************************)
UrlChars == {" ", "u"}

RECURSIVE SeqsUpTo(_, _)
SeqsUpTo(S, k) ==
    IF k = 0 THEN {<<>>}
    ELSE LET shorter == SeqsUpTo(S, k - 1)
         IN  shorter \cup {Append(q, c) : q \in {r \in shorter : Len(r) = k - 1}, c \in S}

Urls == SeqsUpTo(UrlChars, MaxUrlLen)

RECURSIVE lstrip(_)
lstrip(u) == IF u # <<>> /\ Head(u) = " " THEN lstrip(Tail(u)) ELSE u

RECURSIVE rstrip(_)
rstrip(u) ==
    IF u # <<>> /\ u[Len(u)] = " " THEN rstrip(SubSeq(u, 1, Len(u) - 1)) ELSE u

\* str.strip()
strip(u) == rstrip(lstrip(u))

(***************************************************************************)
(* Constants of the module (lines 16-24).                                  *)
(***************************************************************************)
UIPlatforms == {"YouTube", "YouTube Shorts", "X", "Facebook", "Instagram", "TikTok"}

\* DOWNLOAD_FOLDERS.get(platform, "downloads")
DOWNLOAD_FOLDERS(platform) ==
    CASE platform = "YouTube"        -> "youtube_video"
      [] platform = "YouTube Shorts" -> "youtube_shorts"
      [] platform = "X"              -> "x_video"
      [] platform = "Facebook"       -> "facebook_video"
      [] platform = "Instagram"      -> "instagram_video"
      [] platform = "TikTok"         -> "tiktok_video"
      [] OTHER                       -> "downloads"

DEFAULT_FILE_NAME == "Untitled.mp4"

\* os.path.join(a, b) on POSIX, for relative non-empty parts
os_path_join(a, b) == a \o "/" \o b

(***************************************************************************)
(* get_format_string (lines 34-41): format_map.get(itag, 'best'), a dict   *)
(* keyed by the ints 18, 22 and 37.                                        *)
(***************************************************************************)
\* as get_format_string, with the 1080p entry (line 39) left out
get_format_string_No37(itag) ==
    CASE itag = PyInt(18) -> "18"
      [] itag = PyInt(22) -> "22"
      [] OTHER            -> "best"

\* as get_format_string, with the table looked up by the identifier's text,
\* whether it is an int or a str
get_format_string_ByText(itag) ==
    CASE itag \in {PyInt(18), PyStr("18")} -> "18"
      [] itag \in {PyInt(22), PyStr("22")} -> "22"
      [] itag \in {PyInt(37), PyStr("37")} -> "37"
      [] OTHER                             -> "best"

get_format_string(itag) ==
    CASE itag = PyInt(18) -> "18"
      [] itag = PyInt(22) -> "22"
      [] itag = PyInt(37) -> "37"
      [] OTHER            -> "best"

(***************************************************************************)
(* Exceptions and result dicts.                                            *)
(***************************************************************************)
\* classes derived from Exception, which 'except Exception' catches
ExceptionSubclasses ==
    {"Exception", "DownloadError", "OSError", "FileExistsError",
     "AssertionError", "AttributeError"}

Exc(cls, msg) == [cls |-> cls, msg |-> msg]

\* a dict returned by fetch_video_info / download_video: its keys and values
NoDict == [keys |-> {}, error |-> "", file_path |-> "", formats |-> <<>>]
ErrorDict(msg) == [keys |-> {"error"}, error |-> msg, file_path |-> "", formats |-> <<>>]
SuccessPathDict(p) ==
    [keys |-> {"success", "file_path"}, error |-> "", file_path |-> p, formats |-> <<>>]
SuccessFormatsDict(fs) ==
    [keys |-> {"success", "formats"}, error |-> "", file_path |-> "", formats |-> fs]

(***************************************************************************)
(* The extraction collaborator (yt_dlp.YoutubeDL), seen from its callers:  *)
(* what extract_info(url, download=False) and download([url]) can do.      *)
(***************************************************************************)
\* one entry of info_dict['formats']; has_id says whether 'format_id' is a key,
\* resolution / format_note are f.get(...) (None when the key is absent)
Variant(has_id, id, res, note) ==
    [has_id |-> has_id, format_id |-> id, resolution |-> res, format_note |-> note]

Variants ==
    { Variant(TRUE,  "18",  PyStr("640x360"), PyStr("360p")),
      Variant(TRUE,  "22",  PyNone,           PyStr("720p")),
      Variant(TRUE,  "137", PyStr(""),        PyNone),
      Variant(FALSE, "",    PyStr("audio only"), PyNone) }

FormatLists == SeqsUpTo(Variants, MaxFormats)

\* exceptions the collaborator raises; str(e) may be empty (a bare assert)
CollaboratorErrors ==
    { Exc("DownloadError", "ERROR: Unsupported URL"),
      Exc("AssertionError", "") }

ExtractOutcome(kind, e, has_formats, fs) ==
    [kind |-> kind, exc |-> e, has_formats |-> has_formats, formats |-> fs]

NoExc == Exc("", "")
NoOutcome == ExtractOutcome("", NoExc, FALSE, <<>>)

\* extract_info raises, returns None, or returns an info dict with or
\* without a 'formats' key
ExtractOutcomes ==
    {ExtractOutcome("raise", e, FALSE, <<>>) : e \in CollaboratorErrors}
    \cup {ExtractOutcome("none", NoExc, FALSE, <<>>)}
    \cup {ExtractOutcome("info", NoExc, FALSE, <<>>)}
    \cup {ExtractOutcome("info", NoExc, TRUE, fs) : fs \in FormatLists}

\* download([url]) completes, or raises
DownloadOutcomes ==
    {[ok |-> TRUE, exc |-> NoExc]}
    \cup {[ok |-> FALSE, exc |-> e] : e \in CollaboratorErrors}

(***************************************************************************)
(* fetch_video_info (lines 43-57).                                         *)
(***************************************************************************)
\* the except clause (lines 55-57): what reaches the caller for exception e
fetch_video_info_except(e) ==
    IF e.cls \in ExceptionSubclasses
    THEN [raised |-> FALSE, ret |-> ErrorDict(e.msg)]
    ELSE [raised |-> TRUE,  ret |-> NoDict]

\* the whole call, given what extract_info did
fetch_video_info(outcome) ==
    CASE outcome.kind = "raise" -> fetch_video_info_except(outcome.exc)
      [] outcome.kind = "none"  ->
            \* info_dict.get on None (line 53)
            fetch_video_info_except(
                Exc("AttributeError", "'NoneType' object has no attribute 'get'"))
      [] OTHER ->
            [raised |-> FALSE,
             ret |-> SuccessFormatsDict(
                        IF outcome.has_formats THEN outcome.formats ELSE <<>>)]

(***************************************************************************)
(* download_video (lines 59-90), pieces.                                   *)
(***************************************************************************)
ResolutionPlatforms == {"YouTube", "YouTube Shorts"}

\* as ydl_opts_format, with the platform test of line 74 left out
ydl_opts_format_AnyPlatform(platform, itag) ==
    IF Truthy(itag) THEN get_format_string(itag) ELSE "best"

\* ydl_opts['format'] (lines 73-78)
ydl_opts_format(platform, itag) ==
    IF platform \in ResolutionPlatforms /\ Truthy(itag)
    THEN get_format_string(itag)
    ELSE "best"

\* as output_path, with the file named after the selected format
output_path_PerFormat(download_folder, url, itag) ==
    os_path_join(download_folder,
                 IF Truthy(itag) THEN get_format_string(itag) \o ".mp4"
                 ELSE DEFAULT_FILE_NAME)

\* file_path (line 65)
output_path(download_folder, url, itag) ==
    os_path_join(download_folder, DEFAULT_FILE_NAME)

\* as download_video_except, without the 'except Exception' clause (lines 88-90)
download_video_except_OnlyDownloadError(e) ==
    IF e.cls = "DownloadError"
    THEN [pc |-> "Failed", result |-> ErrorDict("Download error: " \o e.msg)]
    ELSE [pc |-> "Raised", result |-> NoDict]

\* the except clauses (lines 85-90): the next position and the returned dict
download_video_except(e) ==
    IF e.cls = "DownloadError"
    THEN [pc |-> "Failed", result |-> ErrorDict("Download error: " \o e.msg)]
    ELSE IF e.cls \in ExceptionSubclasses
    THEN [pc |-> "Failed",
          result |-> ErrorDict("Exception in download_video: " \o e.msg)]
    ELSE [pc |-> "Raised", result |-> NoDict]

(***************************************************************************)
(* main (lines 93-155), pieces.                                            *)
(***************************************************************************)
\* line 105: the resolution picker is offered
offers_resolution(platform, url) ==
    platform \in ResolutionPlatforms /\ strip(url) # <<>>

\* as url_entered, with the test of line 130 left out
url_entered_Unchecked(url) == TRUE

\* line 130, negated: the download trigger is accepted
url_entered(url) == strip(url) # <<>>

\* as has_format_id, with the test of line 116 left out
has_format_id_Unfiltered(f) == TRUE

\* line 116: 'format_id' in f
has_format_id(f) == f.has_id

\* line 117: f.get('resolution') or f.get('format_note') or "unknown"
resolution_of(f) == PyOr(PyOr(f.resolution, f.format_note), PyStr("unknown"))

\* d[k] = v on an insertion-ordered dict kept as a sequence of entries
DictSet(d, k, v) ==
    IF \E i \in 1..Len(d) : d[i].key = k
    THEN [i \in 1..Len(d) |-> IF d[i].key = k THEN [key |-> k, val |-> v] ELSE d[i]]
    ELSE Append(d, [key |-> k, val |-> v])

\* lines 114-118: the loop building available_itags
RECURSIVE build_available_itags(_, _)
build_available_itags(formats, acc) ==
    IF formats = <<>> THEN acc
    ELSE LET f == Head(formats)
         IN  build_available_itags(
                 Tail(formats),
                 IF has_format_id(f)
                 THEN DictSet(acc, f.format_id, resolution_of(f))
                 ELSE acc)

(***************************************************************************)
(* State.                                                                  *)
(*   run[s]  the position and the local variables of session s: main's     *)
(*           (platform, url, pressed, itag, video_info, available_itags,   *)
(*           what st.error showed) and download_video's (its arguments,    *)
(*           download_folder, file_path, ydl_opts['format'], the exception *)
(*           e caught by its except clauses, the result);                  *)
(*   dirs    the directories that exist under the working directory.       *)
(***************************************************************************)
VARIABLES run, dirs

vars == <<run, dirs>>

Sessions == {"s1", "s2"}

InitRun ==
    [pc |-> "Idle", caller |-> "",
     platform |-> "", url |-> <<>>, pressed |-> FALSE,
     extracted |-> NoOutcome, video_info |-> NoDict,
     available_itags |-> <<>>, itag |-> PyNone, st_error |-> {},
     dv_url |-> <<>>, dv_platform |-> "", dv_itag |-> PyNone,
     download_folder |-> "", file_path |-> "", ydl_format |-> "",
     e |-> NoExc, result |-> NoDict,
     gfs_arg |-> PyNone, gfs_ret |-> ""]

Init ==
    /\ run = [s \in Sessions |-> InitRun]
    /\ dirs = {}

\* positions inside download_video
DvPositions == {"dv_folder", "dv_mkdir", "dv_download"}

(***************************************************************************)
(* download_video, step by step. The steps end where the function blocks   *)
(* in the operating system or in the collaborator.                         *)
(***************************************************************************)
\* entry: lines 59-63
DvCall(r, url, platform, itag) ==
    [r EXCEPT !.pc = "dv_folder",
              !.dv_url = url, !.dv_platform = platform, !.dv_itag = itag,
              !.download_folder = DOWNLOAD_FOLDERS(platform)]

\* lines 65-81: the path, the options, and the entry into ydl.download
DvConfigure(r) ==
    [r EXCEPT !.pc = "dv_download",
              !.file_path = output_path(r.download_folder, r.dv_url, r.dv_itag),
              !.ydl_format = ydl_opts_format(r.dv_platform, r.dv_itag)]

\* lines 136-137 of main: a Failure is shown as error text
MainShowResult(r) ==
    IF r.caller = "main" /\ "error" \in r.result.keys
    THEN [r EXCEPT !.st_error = @ \cup {"Error: " \o r.result.error}]
    ELSE r

\* an exception raised inside the try block
DvRaise(r, e) ==
    LET h == download_video_except(e)
    IN  MainShowResult([r EXCEPT !.pc = h.pc, !.e = e, !.result = h.result])

\* as DvEnsureFolder, with a lock per download folder held for the whole call
DvEnsureFolder_Locked(s) ==
    /\ run[s].pc = "dv_folder"
    /\ \A o \in DOMAIN run \ {s} :
           ~(/\ run[o].pc \in {"dv_mkdir", "dv_download"}
             /\ run[o].download_folder = run[s].download_folder)
    /\ run' = [run EXCEPT ![s] =
                 IF run[s].download_folder \in dirs
                 THEN DvConfigure(run[s])
                 ELSE [run[s] EXCEPT !.pc = "dv_mkdir"]]
    /\ UNCHANGED dirs

\* ensure_folder_exists, line 28: os.path.exists(folder)
DvEnsureFolder(s) ==
    /\ run[s].pc = "dv_folder"
    /\ run' = [run EXCEPT ![s] =
                 IF run[s].download_folder \in dirs
                 THEN DvConfigure(run[s])
                 ELSE [run[s] EXCEPT !.pc = "dv_mkdir"]]
    /\ UNCHANGED dirs

\* ensure_folder_exists, line 30: os.makedirs(folder). It raises
\* FileExistsError when the folder appeared since line 28, and OSError when
\* the directory cannot be created.
DvMakeDirs(s) ==
    /\ run[s].pc = "dv_mkdir"
    /\ \E denied \in BOOLEAN :
         LET folder == run[s].download_folder
         IN  IF folder \in dirs
             THEN /\ run' = [run EXCEPT ![s] =
                       DvRaise(run[s], Exc("FileExistsError",
                           "[Errno 17] File exists: '" \o folder \o "'"))]
                  /\ UNCHANGED dirs
             ELSE IF denied
             THEN /\ run' = [run EXCEPT ![s] =
                       DvRaise(run[s], Exc("OSError",
                           "[Errno 13] Permission denied: '" \o folder \o "'"))]
                  /\ UNCHANGED dirs
             ELSE /\ run' = [run EXCEPT ![s] = DvConfigure(run[s])]
                  /\ dirs' = dirs \cup {folder}

\* lines 80-90: ydl.download([url]) returns or raises
DvFinish(s) ==
    /\ run[s].pc = "dv_download"
    /\ \E o \in DownloadOutcomes :
         run' = [run EXCEPT ![s] =
                   IF o.ok
                   THEN MainShowResult(
                            [run[s] EXCEPT !.pc = "Succeeded",
                                           !.result = SuccessPathDict(run[s].file_path)])
                   ELSE DvRaise(run[s], o.exc)]
    /\ UNCHANGED dirs

(***************************************************************************)
(* main: one run of the script.                                            *)
(***************************************************************************)
\* as MainButton, with the script stopping after a failed metadata fetch
MainButton_StopOnFetchError(r) ==
    IF r.pressed /\ "error" \notin r.video_info.keys
    THEN IF url_entered(r.url)
         THEN DvCall(r, strip(r.url), r.platform, r.itag)
         ELSE [r EXCEPT !.pc = "Rendered",
                        !.st_error = @ \cup {"Please enter a valid URL."}]
    ELSE [r EXCEPT !.pc = "Rendered"]

\* lines 129-135: the download button
MainButton(r) ==
    IF r.pressed
    THEN IF url_entered(r.url)
         THEN DvCall(r, strip(r.url), r.platform, r.itag)
         ELSE [r EXCEPT !.pc = "Rendered",
                        !.st_error = @ \cup {"Please enter a valid URL."}]
    ELSE [r EXCEPT !.pc = "Rendered"]

\* lines 109-127: what main does with the dict fetch_video_info returned;
\* choice is the index of the option selected in st.radio
MainAfterFetch(r, video_info, choice) ==
    IF "error" \in video_info.keys
    THEN [r EXCEPT !.video_info = video_info,
                   !.st_error = @ \cup {"Error: " \o video_info.error}]
    ELSE LET available == build_available_itags(video_info.formats, <<>>)
         IN  [r EXCEPT !.video_info = video_info,
                       !.available_itags = available,
                       !.itag = IF available # <<>>
                                THEN PyStr(available[choice].key)
                                ELSE PyNone]

\* the options st.radio can return for the dict fetch_video_info returned
RadioChoices(video_info) ==
    IF "error" \in video_info.keys THEN {1}
    ELSE LET available == build_available_itags(video_info.formats, <<>>)
         IN  IF available = <<>> THEN {1} ELSE 1..Len(available)

\* lines 97-105: the widgets are read; the script goes on to the fetch or
\* to the button
MainStart(s) ==
    /\ run[s].pc = "Idle"
    /\ \E platform \in UIPlatforms, url \in Urls, pressed \in BOOLEAN :
         LET r == [run[s] EXCEPT !.caller = "main", !.platform = platform,
                                 !.url = url, !.pressed = pressed,
                                 !.itag = PyNone]
         IN  run' = [run EXCEPT ![s] =
                       IF offers_resolution(platform, url)
                       THEN [r EXCEPT !.pc = "Fetching"]
                       ELSE MainButton(r)]
    /\ UNCHANGED dirs

\* lines 108-135: fetch_video_info returns, then the picker and the button
MainFetchReturn(s) ==
    /\ run[s].pc = "Fetching"
    /\ run[s].caller = "main"
    /\ \E o \in ExtractOutcomes :
         LET got == fetch_video_info(o)
             r   == [run[s] EXCEPT !.extracted = o]
         IN  \E choice \in RadioChoices(got.ret) :
               run' = [run EXCEPT ![s] =
                         IF got.raised
                         THEN [r EXCEPT !.pc = "Raised"]
                         ELSE MainButton(MainAfterFetch(r, got.ret, choice))]
    /\ UNCHANGED dirs

\* the script has ended; the next interaction runs it again from the top
Rerun(s) ==
    /\ run[s].pc \in {"Rendered", "Succeeded", "Failed", "Returned"}
    /\ run' = [run EXCEPT ![s] = InitRun]
    /\ UNCHANGED dirs

Next ==
    \/ MainStart("s1")
    \/ MainFetchReturn("s1")
    \/ DvEnsureFolder("s1")
    \/ DvMakeDirs("s1")
    \/ DvFinish("s1")
    \/ Rerun("s1")

Spec == Init /\ [][Next]_vars

\* main is synchronous: once called, download_video runs to its return,
\* the collaborator's download returning or raising
FairSpec ==
    /\ Spec
    /\ WF_vars(DvEnsureFolder("s1"))
    /\ WF_vars(DvMakeDirs("s1"))
    /\ WF_vars(DvFinish("s1"))

(***************************************************************************)
(* CallSpec: the functions called directly, one call per behaviour, with   *)
(* arguments and an initial working directory drawn from bounded sets.     *)
(***************************************************************************)
\* platform labels a caller may pass: the six of the table and others
AnyPlatforms == UIPlatforms \cup {"Vimeo", ""}

\* selectors a caller may pass as itag
Selectors ==
    {PyNone, PyInt(0), PyInt(18), PyInt(22), PyInt(37), PyInt(144),
     PyStr(""), PyStr("18"), PyStr("22")}

AllFolders == {DOWNLOAD_FOLDERS(p) : p \in AnyPlatforms}

CallGetFormatString(s) ==
    /\ run[s].pc = "Idle"
    /\ \E itag \in Selectors :
         run' = [run EXCEPT ![s] =
                   [@ EXCEPT !.pc = "Returned", !.caller = "get_format_string",
                             !.gfs_arg = itag,
                             !.gfs_ret = get_format_string(itag)]]
    /\ UNCHANGED dirs

CallFetch(s) ==
    /\ run[s].pc = "Idle"
    /\ \E url \in Urls :
         run' = [run EXCEPT ![s] =
                   [@ EXCEPT !.pc = "Fetching", !.caller = "fetch_video_info",
                             !.url = url]]
    /\ UNCHANGED dirs

\* lines 51-57: extract_info returns or raises, fetch_video_info returns
DirectFetchReturn(s) ==
    /\ run[s].pc = "Fetching"
    /\ run[s].caller = "fetch_video_info"
    /\ \E o \in ExtractOutcomes :
         LET got == fetch_video_info(o)
         IN  run' = [run EXCEPT ![s] =
                       [@ EXCEPT !.pc = IF got.raised THEN "Raised" ELSE "Returned",
                                 !.extracted = o,
                                 !.video_info = got.ret]]
    /\ UNCHANGED dirs

CallDownload(s) ==
    /\ run[s].pc = "Idle"
    /\ \E url \in Urls, platform \in AnyPlatforms, itag \in Selectors :
         run' = [run EXCEPT ![s] =
                   DvCall([@ EXCEPT !.caller = "download_video"],
                          url, platform, itag)]
    /\ UNCHANGED dirs

CallInit ==
    /\ run = [s \in Sessions |-> InitRun]
    /\ dirs \in {{}, AllFolders}

CallNext ==
    \/ CallGetFormatString("s1")
    \/ CallFetch("s1")
    \/ DirectFetchReturn("s1")
    \/ CallDownload("s1")
    \/ DvEnsureFolder("s1")
    \/ DvMakeDirs("s1")
    \/ DvFinish("s1")

CallSpec == CallInit /\ [][CallNext]_vars

(***************************************************************************)
(* RaceSpec: two sessions, each making one download_video call of the kind *)
(* main makes (a stripped non-empty URL, one of the six labels, None or a  *)
(* picked format_id), with nothing ordering their steps.                   *)
(***************************************************************************)
EnteredUrls == {<<"u">>, <<"u", "u">>}

RaceSelectors == {PyNone, PyStr("22")}

RaceCall(s) ==
    /\ run[s].pc = "Idle"
    /\ \E url \in EnteredUrls, platform \in UIPlatforms, itag \in RaceSelectors :
         run' = [run EXCEPT ![s] =
                   DvCall([@ EXCEPT !.caller = "download_video"],
                          url, platform, itag)]
    /\ UNCHANGED dirs

RaceNext ==
    \E s \in Sessions :
        \/ RaceCall(s)
        \/ DvEnsureFolder(s)
        \/ DvMakeDirs(s)
        \/ DvFinish(s)

RaceSpec == Init /\ [][RaceNext]_vars

(***************************************************************************)
(* Properties of the functions called directly (CallSpec).                 *)
(***************************************************************************)
\* the call of session s has returned to its caller
Returned(s) == run[s].pc \in {"Returned", "Succeeded", "Failed"}

IsFailure(d) == d.keys = {"error"}
IsSuccess(d) == "success" \in d.keys /\ "error" \notin d.keys

\* C1: download_video never raises. Whatever the arguments, every exception
\* raised inside it (by the collaborator or by the creation of the
\* directory) ends in a returned Failure dict, which has an "error" message
\* and neither "success" nor "file_path"; a Success dict is returned only
\* when no exception was raised, that is when ydl.download completed.
C1_DownloadNeverRaises ==
    \A s \in Sessions :
        run[s].caller = "download_video" =>
            /\ run[s].pc # "Raised"
            /\ run[s].e # NoExc =>
                   /\ run[s].pc = "Failed"
                   /\ IsFailure(run[s].result)
                   /\ run[s].result.error # ""
            /\ run[s].pc = "Failed" => IsFailure(run[s].result) /\ run[s].e # NoExc
            /\ run[s].pc = "Succeeded" =>
                   /\ run[s].e = NoExc
                   /\ run[s].result.keys = {"success", "file_path"}
            /\ IsSuccess(run[s].result) => run[s].pc = "Succeeded"

\* C1's case: the directory could not be created, and a Failure came back
C1_Witness ==
    \E s \in Sessions :
        /\ run[s].caller = "download_video"
        /\ run[s].pc = "Failed"
        /\ run[s].e.cls = "OSError"
        /\ IsFailure(run[s].result)

\* C2: when extract_info raises, fetch_video_info returns a Failure whose
\* message is not empty, and does not raise.
C2_FetchFailureMessageNonEmpty ==
    \A s \in Sessions :
        (/\ run[s].caller = "fetch_video_info"
         /\ run[s].extracted.kind = "raise") =>
            /\ run[s].pc = "Returned"
            /\ IsFailure(run[s].video_info)
            /\ run[s].video_info.error # ""

\* C3: the format handed to the collaborator is get_format_string(selector)
\* for YouTube / YouTube Shorts with a selector supplied, and "best" in
\* every other case; YouTube with 22 asks for "22", TikTok with no selector
\* asks for "best".
C3_FormatHandedToCollaborator ==
    \A s \in Sessions :
        run[s].caller = "download_video" =>
            /\ run[s].pc \in {"dv_download", "Succeeded"} => run[s].ydl_format # ""
            /\ run[s].ydl_format # "" =>
                   /\ run[s].ydl_format =
                          IF /\ run[s].dv_platform \in {"YouTube", "YouTube Shorts"}
                             /\ run[s].dv_itag # PyNone
                          THEN get_format_string(run[s].dv_itag)
                          ELSE "best"
                   /\ (run[s].dv_platform = "YouTube" /\ run[s].dv_itag = PyInt(22))
                          => run[s].ydl_format = "22"
                   /\ (run[s].dv_platform = "TikTok" /\ run[s].dv_itag = PyNone)
                          => run[s].ydl_format = "best"

\* C3's case: YouTube with selector 22, inside ydl.download
C3_Witness ==
    \E s \in Sessions :
        /\ run[s].caller = "download_video"
        /\ run[s].pc = "dv_download"
        /\ run[s].dv_platform = "YouTube"
        /\ run[s].dv_itag = PyInt(22)
        /\ run[s].ydl_format = "22"

\* C4: get_format_string returns "18", "22", "37" for the identifiers 18, 22
\* and 37, and "best" for every identifier outside that set; it changes
\* nothing else.
C4_FormatResolverMapping ==
    \A s \in Sessions :
        run[s].caller = "get_format_string" =>
            /\ run[s].pc = "Returned"
            /\ run[s].gfs_arg = PyInt(18) => run[s].gfs_ret = "18"
            /\ run[s].gfs_arg = PyInt(22) => run[s].gfs_ret = "22"
            /\ run[s].gfs_arg = PyInt(37) => run[s].gfs_ret = "37"
            /\ run[s].gfs_arg \notin {PyInt(18), PyInt(22), PyInt(37)}
                   => run[s].gfs_ret = "best"
            /\ run[s] = [InitRun EXCEPT !.pc = "Returned",
                                        !.caller = "get_format_string",
                                        !.gfs_arg = run[s].gfs_arg,
                                        !.gfs_ret = run[s].gfs_ret]

\* C4's case: the 1080p identifier was resolved
C4_Witness ==
    \E s \in Sessions :
        /\ run[s].caller = "get_format_string"
        /\ run[s].gfs_arg = PyInt(37)
        /\ run[s].gfs_ret = "37"

\* the folder table as the specification states it
SpecFolder(platform) ==
    IF platform = "YouTube" THEN "youtube_video"
    ELSE IF platform = "YouTube Shorts" THEN "youtube_shorts"
    ELSE IF platform = "X" THEN "x_video"
    ELSE IF platform = "Facebook" THEN "facebook_video"
    ELSE IF platform = "Instagram" THEN "instagram_video"
    ELSE IF platform = "TikTok" THEN "tiktok_video"
    ELSE "downloads"

\* C5: a Success from download_video carries the path folder(platform) joined
\* with "Untitled.mp4", whatever the URL and the selector.
C5_SuccessPath ==
    \A s \in Sessions :
        (run[s].caller = "download_video" /\ IsSuccess(run[s].result)) =>
            run[s].result.file_path = SpecFolder(run[s].dv_platform) \o "/Untitled.mp4"

\* C5's case: a label outside the table, a selector, a successful download
C5_Witness ==
    \E s \in Sessions :
        /\ run[s].caller = "download_video"
        /\ run[s].pc = "Succeeded"
        /\ run[s].dv_platform = "Vimeo"
        /\ run[s].dv_itag = PyInt(22)
        /\ run[s].dv_url # <<>>
        /\ run[s].result.file_path = "downloads/Untitled.mp4"

(***************************************************************************)
(* Properties of the script main (Spec, FairSpec).                         *)
(***************************************************************************)
\* the identifiers of the variants of a list that carry one
IdsOf(formats) ==
    {formats[i].format_id : i \in {j \in 1..Len(formats) : formats[j].has_id}}

KeysOf(d) == {d[i].key : i \in 1..Len(d)}

\* C6, as stated: on a successful lookup the list fetch_video_info returns
\* holds only variants that carry a format identifier.
C6_FetchReturnsOnlyIdentified ==
    \A s \in Sessions :
        IsSuccess(run[s].video_info) =>
            \A i \in 1..Len(run[s].video_info.formats) :
                run[s].video_info.formats[i].has_id

\* C6, amended: on a successful lookup fetch_video_info returns the
\* collaborator's list as it is; main drops the variants without a format
\* identifier when it builds the picker, whose options are exactly the
\* identifiers present, so that a list with no identifier at all gives an
\* empty picker and no selector.
C6_PickerHoldsOnlyIdentified ==
    \A s \in Sessions :
        (run[s].caller = "main" /\ IsSuccess(run[s].video_info)) =>
            /\ run[s].extracted.kind = "info"
            /\ run[s].video_info.formats = run[s].extracted.formats
            /\ KeysOf(run[s].available_itags) = IdsOf(run[s].extracted.formats)
            /\ \A i \in 1..Len(run[s].available_itags) :
                   \E j \in 1..Len(run[s].extracted.formats) :
                       /\ run[s].extracted.formats[j].has_id
                       /\ run[s].extracted.formats[j].format_id
                              = run[s].available_itags[i].key
            /\ IdsOf(run[s].extracted.formats) = {} =>
                   run[s].available_itags = <<>> /\ run[s].itag = PyNone

\* C6's case: every variant returned lacks an identifier
C6_Witness ==
    \E s \in Sessions :
        /\ run[s].caller = "main"
        /\ IsSuccess(run[s].video_info)
        /\ Len(run[s].video_info.formats) = 2
        /\ IdsOf(run[s].video_info.formats) = {}
        /\ run[s].available_itags = <<>>

\* C7: after a failed metadata fetch the run offers no resolution choice,
\* and a download triggered in that run still calls download_video, with
\* no selector, so that the collaborator is asked for "best".
C7_FailedFetchDownloadsBest ==
    \A s \in Sessions :
        (run[s].caller = "main" /\ "error" \in run[s].video_info.keys) =>
            /\ run[s].platform \in {"YouTube", "YouTube Shorts"}
            /\ run[s].available_itags = <<>>
            /\ run[s].itag = PyNone
            /\ run[s].pressed =>
                   /\ run[s].pc \in {"dv_folder", "dv_mkdir", "dv_download",
                                     "Succeeded", "Failed"}
                   /\ run[s].dv_itag = PyNone
                   /\ run[s].dv_platform = run[s].platform
            /\ run[s].pc \in {"dv_download", "Succeeded"} => run[s].ydl_format = "best"
            /\ run[s].ydl_format \in {"", "best"}

\* C7's case: the fetch failed and the download is under way
C7_Witness ==
    \E s \in Sessions :
        /\ run[s].caller = "main"
        /\ "error" \in run[s].video_info.keys
        /\ run[s].pressed
        /\ run[s].pc = "dv_download"
        /\ run[s].ydl_format = "best"

\* the state of the run, in the words of the specification
Phase(s) ==
    CASE run[s].pc \in {"Idle", "Rendered"} -> "Idle"
      [] run[s].pc \in DvPositions          -> "Downloading"
      [] OTHER                              -> run[s].pc

PhaseSteps ==
    {<<"Idle", "Idle">>, <<"Idle", "Fetching">>, <<"Idle", "Downloading">>,
     <<"Fetching", "Idle">>, <<"Fetching", "Downloading">>,
     <<"Downloading", "Downloading">>,
     <<"Downloading", "Succeeded">>, <<"Downloading", "Failed">>,
     <<"Succeeded", "Idle">>, <<"Failed", "Idle">>}

C9_States ==
    \A s \in Sessions :
        /\ Phase(s) \in {"Idle", "Fetching", "Downloading", "Succeeded", "Failed"}
        /\ Phase(s) = "Fetching" =>
               /\ run[s].platform \in {"YouTube", "YouTube Shorts"}
               /\ strip(run[s].url) # <<>>
        /\ Phase(s) \in {"Downloading", "Succeeded", "Failed"} =>
               /\ run[s].pressed
               /\ strip(run[s].url) # <<>>
               /\ run[s].dv_url = strip(run[s].url)
        /\ (run[s].pc = "Rendered" /\ run[s].pressed) =>
               /\ strip(run[s].url) = <<>>
               /\ "Please enter a valid URL." \in run[s].st_error
               /\ run[s].download_folder = ""
               /\ run[s].result = NoDict
        /\ Phase(s) = "Succeeded" <=> IsSuccess(run[s].result)
        /\ Phase(s) = "Failed" <=> IsFailure(run[s].result)
        /\ run[s].pc = "Idle" => run[s] = InitRun

C9_Steps ==
    \A s \in Sessions :
        /\ run'[s] # run[s] =>
               <<Phase(s), (CASE run'[s].pc \in {"Idle", "Rendered"} -> "Idle"
                              [] run'[s].pc \in DvPositions          -> "Downloading"
                              [] OTHER                               -> run'[s].pc)>>
                   \in PhaseSteps
        /\ dirs' # dirs => \E t \in Sessions : run[t].pc = "dv_mkdir"

\* C9: a run only moves Idle -> Fetching (optional) -> Downloading ->
\* {Succeeded, Failed}. Fetching is entered only for YouTube / YouTube
\* Shorts with a URL that is not empty once stripped; Downloading only when
\* the button is pressed with such a URL (an empty one shows an error and
\* neither calls download_video nor creates a folder); a run that enters
\* Downloading ends in exactly one of Succeeded and Failed; the next run
\* starts from the initial state.
C9_RunStateMachine ==
    /\ []C9_States
    /\ [][C9_Steps]_vars
    /\ \A s \in Sessions :
           (Phase(s) = "Downloading") ~> (Phase(s) \in {"Succeeded", "Failed"})

\* C9's case: the button pressed with a blank URL, the run over
C9_Witness ==
    \E s \in Sessions :
        /\ run[s].pc = "Rendered"
        /\ run[s].pressed
        /\ run[s].url = <<" ">>
        /\ "Please enter a valid URL." \in run[s].st_error
        /\ "downloads" \notin dirs /\ dirs # {}

Writing(s) == run[s].pc = "dv_download"

\* C8: the downloads of one platform label share one output path, and
\* nothing orders two concurrent calls: no step of a call waits for the
\* other call.
C8_SharedPathUnserialized ==
    \A s \in Sessions :
        /\ \A o \in Sessions :
               (/\ run[s].file_path # ""
                /\ run[o].file_path # ""
                /\ run[s].dv_platform = run[o].dv_platform)
                   => run[s].file_path = run[o].file_path
        /\ run[s].pc = "dv_folder" => ENABLED DvEnsureFolder(s)
        /\ run[s].pc = "dv_mkdir" => ENABLED DvMakeDirs(s)
        /\ run[s].pc = "dv_download" => ENABLED DvFinish(s)

\* C8's case: both calls are writing the same file at the same time
C8_Witness ==
    /\ Writing("s1") /\ Writing("s2")
    /\ run["s1"].dv_url # run["s2"].dv_url
    /\ run["s1"].dv_itag # run["s2"].dv_itag
    /\ run["s1"].file_path = run["s2"].file_path

====
